---- MODULE Spec2Model ----
(***************************************************************************)
(* Model of src/main.py: a Lambda function that serves three product       *)
(* endpoints through an APIGatewayRestResolver.                            *)
(*                                                                         *)
(* One action, lambda_handler, handles one event from start to finish:     *)
(* route lookup, path-parameter binding, the handler's body, and the       *)
(* translation of the handler's return value or raised error into the      *)
(* response envelope.  The handlers are translated from the source.  The   *)
(* resolver itself (route matching, error translation, response building)  *)
(* is an imported library whose code is not in src/; it is modelled from   *)
(* sections 4.1, 4.2, 4.4 and 4.5 of the specification.                    *)
(***************************************************************************)
EXTENDS Integers, Sequences, FiniteSets, TLC

(***************************************************************************)
(* Bounds                                                                  *)
(***************************************************************************)
\* Number of successful creates whose returned ids are remembered.
MaxIssued == 2

(***************************************************************************)
(* Values: a Python / JSON value is tagged with its type, so that          *)
(* truthiness and isinstance can be computed as Python computes them.      *)
(***************************************************************************)
None == [t |-> "null"]
JStr(s) == [t |-> "str", v |-> s]
JInt(n) == [t |-> "int", v |-> n]
\* A float, kept as its value in thousandths.
JFloat(n) == [t |-> "float", v |-> n]
JBool(b) == [t |-> "bool", v |-> b]
JList(s) == [t |-> "list", v |-> s]
JObj(r) == [t |-> "dict", v |-> r]
\* An f-string, kept as the sequence of its pieces (literal text and
\* interpolated values), so that "the message contains x" can be stated.
FStr(pieces) == [t |-> "fstr", v |-> pieces]

IsString(x) == x.t \in {"str", "fstr"}

\* Python truthiness: bool(x).
Truthy(x) ==
    CASE x.t = "null" -> FALSE
      [] x.t = "str" -> x.v # ""
      [] x.t = "fstr" -> x.v # <<>>
      [] x.t = "int" -> x.v # 0
      [] x.t = "float" -> x.v # 0
      [] x.t = "bool" -> x.v
      [] x.t = "list" -> x.v # <<>>
      [] x.t = "dict" -> DOMAIN x.v # {}

\* Python type name, as it appears in an AttributeError.
TypeName(x) ==
    CASE x.t = "null" -> "NoneType"
      [] x.t = "str" -> "str"
      [] x.t = "fstr" -> "str"
      [] x.t = "int" -> "int"
      [] x.t = "float" -> "float"
      [] x.t = "bool" -> "bool"
      [] x.t = "list" -> "list"
      [] x.t = "dict" -> "dict"

\* isinstance(x, (int, float)): bool is a subclass of int.
IsIntOrFloat(x) == x.t \in {"int", "float", "bool"}

\* A text that may or may not be JSON.  A well-formed JSON text is kept as
\* the document it denotes; json.dumps builds one, json.loads reads one.
json_dumps(doc) == [wf |-> TRUE, doc |-> doc]
Garbage == [wf |-> FALSE, doc |-> JStr("{name:")]

\* Outcomes of a call: a returned value with a status code, or a raised
\* exception with its message.
Return(payload, status) ==
    [kind |-> "return", exc |-> "", payload |-> payload, status |-> status]
Raise(exc, msg) ==
    [kind |-> "raise", exc |-> exc, payload |-> msg, status |-> 0]
NotCalled == [kind |-> "none", exc |-> "", payload |-> None, status |-> 0]

json_loads(text) ==
    IF text.wf THEN Return(text.doc, 0)
    ELSE Raise("JSONDecodeError", FStr(<<"Expecting value">>))

(***************************************************************************)
(* State                                                                   *)
(***************************************************************************)
VARIABLES
    first_get_responses,  \* history: the answer to a GET of each path before any request
    routes,         \* app's route table, filled by the decorators at import
    current_event,  \* app.current_event: the event being (or last) handled
    invoked,        \* the handler the resolver called for it ("none": no call)
    outcome,        \* what that handler returned or raised
    response,       \* the envelope lambda_handler returned
    issued          \* ids returned by the successful creates so far, oldest first

vars == <<first_get_responses, routes, current_event, invoked, outcome, response, issued>>

(***************************************************************************)
(* Events                                                                  *)
(***************************************************************************)
Methods == {"GET", "POST", "DELETE"}

StaticIds == {"prod1", "prod2", "prod3"}
ProductIds == StaticIds \cup {"prod_8", "doesnotexist"}

\* A path is the sequence of its non-empty components: /products/prod1 is
\* <<"products", "prod1">>.
Paths ==
    {<<"products">>, <<"orders">>, <<"orders", "prod1">>,
     <<"products", "prod1", "reviews">>}
    \cup {<<"products", id>> : id \in ProductIds}

NameVals ==
    {None, JStr(""), JStr("Monitor"), JInt(0), JInt(123), JBool(TRUE)}
PriceVals ==
    {None, JInt(300), JInt(0), JFloat(2995), JStr("300"), JBool(TRUE)}

EmptyDict == JObj([k \in {} |-> None])

\* JSON documents sent as the body of POST /products.
CreateDocs ==
    {JObj([name |-> n, price |-> p]) : n \in NameVals, p \in PriceVals}
    \cup {JObj([price |-> JInt(300)]), JObj([name |-> JStr("Monitor")]),
          EmptyDict, JList(<<JInt(1)>>), JStr("Monitor"), JInt(5), None}

\* body: None (absent), or a text.
NoBody == [present |-> FALSE, text |-> Garbage]
Body(text) == [present |-> TRUE, text |-> text]

CreateBodies == {NoBody, Body(Garbage)} \cup {Body(json_dumps(d)) : d \in CreateDocs}
OtherBodies ==
    {NoBody, Body(Garbage),
     Body(json_dumps(JObj([name |-> JStr("Monitor"), price |-> JInt(300)])))}

NoParams == <<>>
PathParams(id) == << <<"product_id", id>> >>

Event(m, p, pp, q, b) ==
    [httpMethod |-> m, path |-> p, pathParameters |-> pp,
     queryStringParameters |-> q, headers |-> <<>>, body |-> b]

Queries == {<<>>, << <<"page", "2">> >>}

Events ==
    {Event("POST", <<"products">>, NoParams, <<>>, b) : b \in CreateBodies}
    \cup {Event("GET", p, NoParams, q, b) :
            p \in Paths, b \in OtherBodies, q \in Queries}
    \cup {Event(m, p, NoParams, <<>>, NoBody) :
            m \in Methods \ {"GET"}, p \in Paths}
    \cup {Event("GET", <<"products", id>>, PathParams(pid), <<>>, NoBody) :
            id \in ProductIds, pid \in {"prod1", "prod2"}}

NoEvent == Event("", <<>>, NoParams, <<>>, NoBody)

(***************************************************************************)
(* Route table and path matching                                           *)
(***************************************************************************)
Lit(text) == [kind |-> "lit", text |-> text]
Param(name) == [kind |-> "param", text |-> name]

Route(method, rule, func) == [method |-> method, rule |-> rule, func |-> func]

\* Mutant: the list route also registered for DELETE.
Routes_delete ==
    << Route("GET", <<Lit("products")>>, "list_products"),
       Route("DELETE", <<Lit("products")>>, "list_products"),
       Route("GET", <<Lit("products"), Param("product_id")>>, "get_product"),
       Route("POST", <<Lit("products")>>, "create_product") >>

\* The three decorators, in the order the module runs them.
Routes ==
    << Route("GET", <<Lit("products")>>, "list_products"),
       Route("GET", <<Lit("products"), Param("product_id")>>, "get_product"),
       Route("POST", <<Lit("products")>>, "create_product") >>

\* match(segments, concretePath): same number of segments, literals equal,
\* each parameter bound to the concrete segment as it stands.
Match(rule, path) ==
    LET ok == /\ Len(rule) = Len(path)
              /\ \A i \in DOMAIN rule : rule[i].kind = "lit" => rule[i].text = path[i]
        names == {rule[i].text : i \in {j \in DOMAIN rule : rule[j].kind = "param"}}
    IN  [ok |-> ok,
         params |-> IF ok
                    THEN [n \in names |-> path[CHOOSE i \in DOMAIN rule : rule[i] = Param(n)]]
                    ELSE [n \in {} |-> ""]]

\* The first route whose method and rule match, 0 when there is none.
FindRoute(rt, method, path) ==
    LET hits == {i \in DOMAIN rt : rt[i].method = method /\ Match(rt[i].rule, path).ok}
    IN  IF hits = {} THEN 0 ELSE CHOOSE i \in hits : \A j \in hits : i <= j

(***************************************************************************)
(* Request context: the lazily parsed JSON body                            *)
(***************************************************************************)
\* app.current_event.json_body.  The accessor is library code; what it does
\* with an absent or an unparsable body differs between the specification
\* and releases of the library, so every documented outcome is possible.
json_body(body) ==
    IF ~body.present
    THEN {Return(EmptyDict, 0), Return(None, 0),
          Raise("TypeError", FStr(<<"the JSON object must be str, bytes or bytearray, not NoneType">>))}
    ELSE IF body.text.wf
    THEN {json_loads(body.text)}
    ELSE {json_loads(body.text),
          Raise("BadRequestError", FStr(<<"Invalid JSON body">>))}

(***************************************************************************)
(* Handlers                                                                *)
(***************************************************************************)
Product(id, name, price) ==
    JObj([id |-> JStr(id), name |-> JStr(name), price |-> JInt(price)])

\* Mutant: the list misses its last product.
list_products_short ==
    LET products == << Product("prod1", "Laptop", 1200),
                       Product("prod2", "Mouse", 25) >>
    IN  Return(JObj([products |-> JList(products)]), 200)

list_products ==
    LET products == << Product("prod1", "Laptop", 1200),
                       Product("prod2", "Mouse", 25),
                       Product("prod3", "Keyboard", 75) >>
    IN  Return(JObj([products |-> JList(products)]), 200)

\* Mutant: a record stored under another product's key.
products_db_swapped ==
    [id \in StaticIds |->
        CASE id = "prod1" -> Product("prod1", "Laptop", 1200)
          [] id = "prod2" -> Product("prod3", "Keyboard", 75)
          [] id = "prod3" -> Product("prod2", "Mouse", 25)]

\* Mutant: created products are kept and found by later lookups.
products_db_persisted ==
    [id \in StaticIds \cup {issued[i] : i \in DOMAIN issued} |->
        CASE id = "prod1" -> Product("prod1", "Laptop", 1200)
          [] id = "prod2" -> Product("prod2", "Mouse", 25)
          [] id = "prod3" -> Product("prod3", "Keyboard", 75)
          [] OTHER -> Product(id, "Monitor", 300)]

products_db ==
    [id \in StaticIds |->
        CASE id = "prod1" -> Product("prod1", "Laptop", 1200)
          [] id = "prod2" -> Product("prod2", "Mouse", 25)
          [] id = "prod3" -> Product("prod3", "Keyboard", 75)]

\* dict.get(key): the value, or None when the key is absent.
dict_get(d, key) == IF key \in DOMAIN d THEN d[key] ELSE None

\* Mutant: the not-found message does not name the id.
get_product_anonymous(product_id) ==
    LET product == dict_get(products_db, product_id)
    IN  IF ~Truthy(product)
        THEN Raise("NotFoundError", FStr(<<"Product not found.">>))
        ELSE Return(product, 200)

get_product(product_id) ==
    LET product == dict_get(products_db, product_id)
    IN  IF ~Truthy(product)
        THEN Raise("NotFoundError",
                   FStr(<<"Product with ID '", product_id, "' not found.">>))
        ELSE Return(product, 200)

\* os.urandom(n): n bytes, any values (sampled: a few byte patterns).
BytePatterns == {<<0>>, <<255>>, <<222, 173, 190, 239>>}
os_urandom(n) ==
    {[i \in 1..n |-> pat[((i - 1) % Len(pat)) + 1]] : pat \in BytePatterns}

\* bytes.hex(): two hexadecimal digits per byte.
HexDigits ==
    <<"0", "1", "2", "3", "4", "5", "6", "7", "8", "9", "a", "b", "c", "d", "e", "f">>
hex(bytes) ==
    [i \in 1..(2 * Len(bytes)) |->
        IF i % 2 = 1 THEN HexDigits[(bytes[(i + 1) \div 2] \div 16) + 1]
        ELSE HexDigits[(bytes[i \div 2] % 16) + 1]]

URANDOM_N == 4

\* f"prod_{len(os.urandom(4).hex())}"
new_product_id(rnd) == "prod_" \o ToString(Len(hex(rnd)))

InvalidProductData ==
    FStr(<<"Invalid product data. 'name' and 'price' are required.">>)

\* The body of create_product's try block.  jb is what json_body gave.
create_product_try(jb, rnd) ==
    IF jb.kind = "raise" THEN jb
    ELSE
    LET body == jb.payload IN
    IF body.t # "dict"
    THEN Raise("AttributeError",
               FStr(<<"'", TypeName(body), "' object has no attribute 'get'">>))
    ELSE
    LET product_name == dict_get(body.v, "name")
        product_price == dict_get(body.v, "price")
    IN  IF ~Truthy(product_name) \/ ~IsIntOrFloat(product_price)
        THEN Raise("BadRequestError", InvalidProductData)
        ELSE Return(JObj([message |-> FStr(<<"Product created successfully">>),
                          product |-> JObj([id |-> JStr(new_product_id(rnd)),
                                            name |-> product_name,
                                            price |-> product_price])]),
                    201)

\* Mutant: no except clause for unexpected errors.
create_product_except_missing(res) == res

\* create_product's except clauses.
create_product_except(res) ==
    IF res.kind # "raise" THEN res
    ELSE IF res.exc = "BadRequestError" THEN res
    ELSE Raise("BadRequestError",
               FStr(<<"An unexpected error occurred: ">> \o res.payload.v))

\* Mutant: a successful create returns another status code.
create_product_accepted(jb, rnd) ==
    LET res == create_product_except(create_product_try(jb, rnd))
    IN  IF res.kind = "return" THEN Return(res.payload, 202) ELSE res

create_product(jb, rnd) == create_product_except(create_product_try(jb, rnd))

(***************************************************************************)
(* Resolver: dispatch, error translation, response building                *)
(***************************************************************************)
\* Error kind -> status code; anything that is not BadRequest or NotFound
\* is Internal.
StatusOf(exc) ==
    CASE exc = "BadRequestError" -> 400
      [] exc = "NotFoundError" -> 404
      [] OTHER -> 500

Envelope(status, doc) ==
    [statusCode |-> status,
     headers |-> << <<"Content-Type", "application/json">> >>,
     body |-> json_dumps(doc),
     isBase64Encoded |-> FALSE]

ErrorBody(msg) == JObj([message |-> msg])

\* A handler's outcome as an envelope.
Translate(out) ==
    IF out.kind = "return" THEN Envelope(out.status, out.payload)
    ELSE IF out.exc \in {"BadRequestError", "NotFoundError"}
    THEN Envelope(StatusOf(out.exc), ErrorBody(out.payload))
    ELSE Envelope(StatusOf(out.exc), ErrorBody(FStr(<<"Internal server error">>)))

NotFoundResponse == Envelope(StatusOf("NotFoundError"), ErrorBody(FStr(<<"Not found">>)))

\* The call the resolver makes once a route is found: path parameters are
\* passed as keyword arguments; create_product reads the body itself.
Call(func, args, jb, rnd) ==
    CASE func = "list_products" -> list_products
      [] func = "get_product" -> get_product(args["product_id"])
      [] func = "create_product" -> create_product(jb, rnd)

\* app.resolve(event, context) over route table rt.
app_resolve(rt, ev, jb, rnd) ==
    LET i == FindRoute(rt, ev.httpMethod, ev.path) IN
    IF i = 0
    THEN [func |-> "none", outcome |-> NotCalled, response |-> NotFoundResponse]
    ELSE LET out == Call(rt[i].func, Match(rt[i].rule, ev.path).params, jb, rnd)
         IN  [func |-> rt[i].func, outcome |-> out, response |-> Translate(out)]

(***************************************************************************)
(* Specification                                                           *)
(***************************************************************************)
\* The plain GET event of a path, and what it would be answered in the
\* current state.
GetEvent(p) == Event("GET", p, NoParams, <<>>, NoBody)
GetAnswer(p) == app_resolve(routes, GetEvent(p), NotCalled, <<>>).response

NoResponse ==
    [statusCode |-> 0, headers |-> <<>>, body |-> Garbage, isBase64Encoded |-> FALSE]

Init ==
    /\ routes = Routes
    /\ current_event = [event |-> NoEvent, json_body |-> NotCalled]
    /\ invoked = "none"
    /\ outcome = NotCalled
    /\ response = NoResponse
    /\ issued = <<>>
    /\ first_get_responses = [p \in Paths |-> GetAnswer(p)]

\* The id in a successful create's payload.
CreatedId(out) == out.payload.v.product.v.id.v

\* The random bytes an invocation may read: only create_product reads any.
Entropy(rt, ev) ==
    LET i == FindRoute(rt, ev.httpMethod, ev.path) IN
    IF i # 0 /\ rt[i].func = "create_product"
    THEN os_urandom(URANDOM_N) ELSE {<<>>}

\* One invocation of the Lambda function, start to finish.
lambda_handler ==
    \E ev \in Events :
      \E jb \in json_body(ev.body), rnd \in Entropy(routes, ev) :
        LET run == app_resolve(routes, ev, jb, rnd)
            created == run.func = "create_product" /\ run.outcome.kind = "return"
            ids == IF created THEN Append(issued, CreatedId(run.outcome)) ELSE issued
        IN  /\ Len(ids) <= MaxIssued
            /\ current_event' =
                 [event |-> ev,
                  json_body |-> IF run.func = "create_product" THEN jb ELSE NotCalled]
            /\ invoked' = run.func
            /\ outcome' = run.outcome
            /\ response' = run.response
            /\ issued' = ids
            /\ UNCHANGED <<routes, first_get_responses>>

Next == lambda_handler

Spec == Init /\ [][Next]_vars

(***************************************************************************)
(* Vocabulary of the properties                                            *)
(***************************************************************************)
\* A request has been handled: the state is not the initial one.
Handled == current_event.event # NoEvent

ReqMethod == current_event.event.httpMethod
ReqPath == current_event.event.path
ReqBody == current_event.event.body

\* json.loads(response["body"])
RespDoc == response.body.doc

IsCreateRequest == ReqMethod = "POST" /\ ReqPath = <<"products">>
IsListRequest == ReqMethod = "GET" /\ ReqPath = <<"products">>
IsGetRequest ==
    ReqMethod = "GET" /\ Len(ReqPath) = 2 /\ ReqPath[1] = "products"

\* The response is an error body {"message": <string>}.
IsErrorBody ==
    /\ response.body.wf
    /\ RespDoc.t = "dict"
    /\ DOMAIN RespDoc.v = {"message"}
    /\ IsString(RespDoc.v.message)

\* The message of an error body mentions text x.
MessageMentions(x) == \E i \in DOMAIN RespDoc.v.message.v : RespDoc.v.message.v[i] = x

(***************************************************************************)
(* C1  Error translation of unexpected failures in create_product          *)
(***************************************************************************)
\* C1: a POST /products whose handler fails unexpectedly (here: the parsed
\* body is not a mapping, so body.get fails) is answered with status 500 and
\* the fixed generic Internal message.
C1_UnexpectedFailureIsInternal ==
    ( /\ Handled
      /\ invoked = "create_product"
      /\ current_event.json_body.kind = "return"
      /\ current_event.json_body.payload.t # "dict" )
    => /\ response.statusCode = 500
       /\ IsErrorBody
       /\ RespDoc.v.message = FStr(<<"Internal server error">>)

(***************************************************************************)
(* C2  Freshness of created ids                                            *)
(***************************************************************************)
\* C2: the id returned by a successful create differs from the three static
\* ids and from the id returned by every earlier successful create.
C2_CreatedIdIsFresh ==
    ( Handled /\ invoked = "create_product" /\ response.statusCode = 201 )
    => LET id == RespDoc.v.product.v.id.v IN
       /\ id \notin StaticIds
       /\ \A i \in 1..(Len(issued) - 1) : issued[i] # id

(***************************************************************************)
(* C3  Validation of name and price                                        *)
(***************************************************************************)
\* C3: POST /products with a JSON object as body answers 201 with the body's
\* name and price exactly when name is a non-empty string and price is a
\* number (a boolean is not); every other body gets 400 with the fixed
\* message.
C3_CreateValidatesNameAndPrice ==
    ( /\ Handled
      /\ IsCreateRequest
      /\ ReqBody.present
      /\ ReqBody.text.wf
      /\ ReqBody.text.doc.t = "dict" )
    => LET body == ReqBody.text.doc.v
           name == dict_get(body, "name")
           price == dict_get(body, "price")
           valid == /\ name.t = "str"
                    /\ name.v # ""
                    /\ price.t \in {"int", "float"}
       IN  IF valid
           THEN /\ response.statusCode = 201
                /\ RespDoc.v.product.v.name = name
                /\ RespDoc.v.product.v.price = price
           ELSE /\ response.statusCode = 400
                /\ RespDoc = ErrorBody(InvalidProductData)

(***************************************************************************)
(* C4  Unparsable body                                                     *)
(***************************************************************************)
UnparsableCreate ==
    Handled /\ IsCreateRequest /\ ReqBody.present /\ ~ReqBody.text.wf

\* C4: POST /products with a body that is not JSON is answered with status
\* 400, never 500.
C4_UnparsableBodyIs400 ==
    UnparsableCreate => response.statusCode = 400 /\ response.statusCode # 500

C4_Witness ==
    /\ UnparsableCreate
    /\ current_event.json_body.kind = "raise"
    /\ current_event.json_body.exc = "JSONDecodeError"
    /\ response.statusCode = 400

(***************************************************************************)
(* C5  Unknown product id                                                  *)
(***************************************************************************)
\* C5: GET /products/{product_id} with an id other than prod1, prod2, prod3
\* is answered with status 404 and a body {"message": ...} whose message
\* contains the requested id, also when the id is one an earlier create
\* returned.
C5_UnknownProductIs404 ==
    ( Handled /\ IsGetRequest /\ ReqPath[2] \notin StaticIds )
    => /\ response.statusCode = 404
       /\ IsErrorBody
       /\ MessageMentions(ReqPath[2])

C5_Witness ==
    /\ Handled
    /\ IsGetRequest
    /\ issued # <<>>
    /\ ReqPath[2] = issued[1]
    /\ response.statusCode = 404
    /\ MessageMentions(issued[1])

(***************************************************************************)
(* C6  Known product id                                                    *)
(***************************************************************************)
\* C6: GET /products/{product_id} with product_id in {prod1, prod2, prod3}
\* is answered with status 200 and exactly the static record of that id,
\* the id being the one in the path.
C6_KnownProductIs200 ==
    ( Handled /\ IsGetRequest /\ ReqPath[2] \in StaticIds )
    => /\ response.statusCode = 200
       /\ response.body.wf
       /\ RespDoc =
            ( CASE ReqPath[2] = "prod1" ->
                     JObj([id |-> JStr("prod1"), name |-> JStr("Laptop"), price |-> JInt(1200)])
                [] ReqPath[2] = "prod2" ->
                     JObj([id |-> JStr("prod2"), name |-> JStr("Mouse"), price |-> JInt(25)])
                [] ReqPath[2] = "prod3" ->
                     JObj([id |-> JStr("prod3"), name |-> JStr("Keyboard"), price |-> JInt(75)]) )

\* The event's own pathParameters name another product than the path does.
C6_Witness ==
    /\ Handled
    /\ IsGetRequest
    /\ ReqPath[2] = "prod1"
    /\ current_event.event.pathParameters = PathParams("prod2")
    /\ response.statusCode = 200
    /\ RespDoc.v.name = JStr("Laptop")

(***************************************************************************)
(* C7  Listing                                                             *)
(***************************************************************************)
\* C7: GET /products is answered with status 200 and a body whose key
\* products holds exactly three objects, prod1, prod2, prod3 in that order,
\* each with id, name and price, whatever the query parameters and body.
C7_ListProducts ==
    ( Handled /\ IsListRequest )
    => /\ response.statusCode = 200
       /\ response.body.wf
       /\ RespDoc.t = "dict"
       /\ "products" \in DOMAIN RespDoc.v
       /\ LET ps == RespDoc.v.products IN
          /\ ps.t = "list"
          /\ Len(ps.v) = 3
          /\ \A i \in DOMAIN ps.v :
               ps.v[i].t = "dict" /\ DOMAIN ps.v[i].v = {"id", "name", "price"}
          /\ <<ps.v[1].v.id, ps.v[2].v.id, ps.v[3].v.id>>
               = <<JStr("prod1"), JStr("prod2"), JStr("prod3")>>

C7_Witness ==
    /\ Handled
    /\ IsListRequest
    /\ ReqBody.present
    /\ current_event.event.queryStringParameters # <<>>
    /\ response.statusCode = 200
    /\ Len(RespDoc.v.products.v) = 3

(***************************************************************************)
(* C8  No matching route                                                   *)
(***************************************************************************)
\* The request is one of GET /products, GET /products/{product_id},
\* POST /products.
IsRegistered == IsListRequest \/ IsGetRequest \/ IsCreateRequest

\* C8: a (method, path) matching none of the three registered routes is
\* answered with NotFound, status 404, and no handler is called; a path
\* registered under another method is treated the same way (never 405).
C8_UnroutedIs404 ==
    ( Handled /\ ~IsRegistered )
    => /\ response.statusCode = 404
       /\ IsErrorBody
       /\ invoked = "none"
       /\ outcome = NotCalled

C8_Witness ==
    /\ Handled
    /\ ReqMethod = "DELETE"
    /\ ReqPath = <<"products">>
    /\ response.statusCode = 404
    /\ invoked = "none"

(***************************************************************************)
(* C9  Every response is a well-formed envelope                            *)
(***************************************************************************)
\* The error kind behind a failure response.
ErrorKind ==
    IF invoked = "none" THEN "NotFound"
    ELSE IF outcome.kind = "raise" /\ outcome.exc = "BadRequestError" THEN "BadRequest"
    ELSE IF outcome.kind = "raise" /\ outcome.exc = "NotFoundError" THEN "NotFound"
    ELSE "Internal"

\* C9: every handled request has a response with a status code in
\* {200, 201, 400, 404, 500} and a JSON body; 200 and 201 carry the
\* handler's payload, and 400, 404, 500 carry {"message": <string>} with the
\* status fixed by the error kind.
C9_ResponseEnvelope ==
    Handled
    => /\ response.statusCode \in {200, 201, 400, 404, 500}
       /\ response.body.wf
       /\ response.statusCode \in {200, 201}
            => /\ outcome.kind = "return"
               /\ outcome.status = response.statusCode
               /\ RespDoc = outcome.payload
       /\ response.statusCode \in {400, 404, 500}
            => /\ outcome.kind # "return"
               /\ IsErrorBody
               /\ response.statusCode =
                    ( CASE ErrorKind = "BadRequest" -> 400
                        [] ErrorKind = "NotFound" -> 404
                        [] ErrorKind = "Internal" -> 500 )

C9_Witness ==
    /\ Handled
    /\ invoked = "create_product"
    /\ issued # <<>>
    /\ response.statusCode = 400
    /\ IsErrorBody

(***************************************************************************)
(* C10  Statelessness                                                      *)
(***************************************************************************)
\* C10: no request changes what a later request observes: after any
\* sequence of requests the route table is the one built at import, a GET
\* of any path would be answered as it would have been as the first
\* request, and a GET that was handled (whatever its query parameters and
\* body) got that answer.
C10_Stateless ==
    /\ routes = Routes
    /\ \A p \in Paths : GetAnswer(p) = first_get_responses[p]
    /\ ( Handled /\ ReqMethod = "GET" ) => response = first_get_responses[ReqPath]

\* A GET for a created id, served after the create.
C10_Witness ==
    /\ Handled
    /\ issued # <<>>
    /\ ReqMethod = "GET"
    /\ ReqPath = <<"products", issued[1]>>
    /\ response = first_get_responses[ReqPath]

====
